---- MODULE Spec2Model ----
(***************************************************************************)
(* Model of banks_project.py: a straight-line ETL script.                  *)
(*   extract -> transform -> load_to_csv -> connect -> load_to_db ->       *)
(*   three run_query calls -> close, with log_progress after each stage.   *)
(*                                                                         *)
(* Text is a sequence of one-character strings.  Amounts and rates are     *)
(* fixed-point integers in hundredths (1000.00 is 100000, 0.93 is 93).     *)
(* A function that can raise returns a record with ok = FALSE.             *)
(***************************************************************************)
EXTENDS Integers, Sequences, FiniteSets, TLC

VARIABLES
    pc,          \* the module-level statement the run is at (next stage to run)
    status,      \* "running", "done" or "failed" (uncaught exception)
    run,         \* number of the current execution of the script
    page,        \* the markup served at BANK_URL: a sequence of tbody tables
    rateFile,    \* content of exchange_rate.csv as this run finds it
    extracted,   \* module variable `extracted`
    transformed, \* module variable `transformed`
    con,         \* module variable `con`: "none", "open" or "closed"
    csvFile,     \* Largest_banks_data.csv on disk (persists across runs)
    dbTable,     \* table Largest_banks of Banks.db (persists across runs)
    log,         \* code_log.txt on disk (persists across runs)
    console,     \* what run_query printed in this run
    trace,       \* history: the stages this run has started, in order
    logAtStart,  \* history: the log as the run found it
    tableAtStart \* history: the table as the run found it

vars == <<pc, status, run, page, rateFile, extracted, transformed, con,
          csvFile, dbTable, log, console, trace, logAtStart, tableAtStart>>

----------------------------------------------------------------------------
(* Bounds of the model *)

MaxRuns == 3      \* executions of the script in one behaviour
MaxLead == 2      \* rows of arbitrary kind placed before the filler rows
MaxFill == 11     \* largest number of well-formed filler rows in a table
MaxRecs == 2      \* rows of a table in the transform specification

(* Program constants *)

RowCap == 10      \* `if count >= 10: break`
QueryLimit == 5   \* `LIMIT 5` of the third query

----------------------------------------------------------------------------
(* Python text primitives *)

Digits == {"0", "1", "2", "3", "4", "5", "6", "7", "8", "9"}
Whitespace == {" ", "\n", "\t"}

Min(S) == CHOOSE x \in S : \A y \in S : x <= y
Max(S) == CHOOSE x \in S : \A y \in S : x >= y

\* str.replace(c, '') for a one-character c
StrRemove(s, c) == SelectSeq(s, LAMBDA ch : ch # c)

\* str.strip()
StrStrip(s) ==
    LET keep == {i \in 1..Len(s) : s[i] \notin Whitespace}
    IN  IF keep = {} THEN <<>> ELSE SubSeq(s, Min(keep), Max(keep))

\* str.find(c) for a one-character c: 0-based index of the first c, or -1
StrFind(s, c) ==
    LET at == {i \in 1..Len(s) : s[i] = c}
    IN  IF at = {} THEN -1 ELSE Min(at) - 1

\* Python truth value of an int: `not n` is true exactly for 0
PyNot(n) == n = 0

DigitVal(c) ==
    CASE c = "0" -> 0 [] c = "1" -> 1 [] c = "2" -> 2 [] c = "3" -> 3
      [] c = "4" -> 4 [] c = "5" -> 5 [] c = "6" -> 6 [] c = "7" -> 7
      [] c = "8" -> 8 [] c = "9" -> 9

RECURSIVE DigitsVal(_)
DigitsVal(s) ==
    IF s = <<>> THEN 0
    ELSE DigitsVal(SubSeq(s, 1, Len(s) - 1)) * 10 + DigitVal(s[Len(s)])

\* float(text) on text made of digits, '.', and anything else: surrounding
\* whitespace is ignored, then [digits][.digits] with at least one digit is a
\* number and everything else raises ValueError.  The value is in hundredths;
\* the inputs of the model carry at most two fractional digits.
PyFloat(s) ==
    LET t == StrStrip(s)
        dots == {i \in 1..Len(t) : t[i] = "."}
        wellFormed == /\ \A i \in 1..Len(t) : t[i] \in Digits \cup {"."}
                      /\ Cardinality(dots) <= 1
                      /\ \E i \in 1..Len(t) : t[i] \in Digits
        d == IF dots = {} THEN Len(t) + 1 ELSE Min(dots)
        whole == SubSeq(t, 1, d - 1)
        frac == SubSeq(t, d + 1, Len(t))
        cents == IF Len(frac) = 0 THEN 0
                 ELSE IF Len(frac) = 1 THEN DigitVal(frac[1]) * 10
                 ELSE DigitVal(frac[1]) * 10 + DigitVal(frac[2])
    IN  IF wellFormed THEN [ok |-> TRUE, val |-> DigitsVal(whole) * 100 + cents]
        ELSE [ok |-> FALSE, val |-> 0]

\* np.round(x, 2) of a product of two hundredths (p is in ten-thousandths):
\* round half to even, taken on the exact decimal value
Round2(p) ==
    LET q == p \div 100
        r == p % 100
    IN  IF r < 50 THEN q
        ELSE IF r > 50 THEN q + 1
        ELSE IF q % 2 = 0 THEN q ELSE q + 1

----------------------------------------------------------------------------
(* extract: a page is a sequence of tbody tables, a table a sequence of tr *)
(* rows, a row the sequence of its td cells (cell_data), and a cell its    *)
(* text and whether it holds an <a> element.                               *)

ExtractFailed == [ok |-> FALSE, df |-> <<>>, picked |-> <<>>]

\* bank = cell_data[1].text.replace('\n', '').strip()
bank_of(cell_data) == StrStrip(StrRemove(cell_data[2].text, "\n"))

\* assets = cell_data[2].text.replace('\n', '')
assets_of(cell_data) == StrRemove(cell_data[3].text, "\n")

\* `if not bank.find('a'): continue`: bank is already a str here, so find is
\* str.find and the test is true exactly when the name starts with "a"
name_test_skips(bank) == PyNot(StrFind(bank, "a"))

\* mutant: a row too short to index is skipped instead of raising
row_step_skip_short(cell_data) ==
    IF Len(cell_data) < 3 THEN "continue"
    ELSE IF name_test_skips(bank_of(cell_data)) THEN "continue"
    ELSE "append"

\* What one pass of the loop body does with a row: "continue" (skipped),
\* "IndexError" (cell_data[1] or cell_data[2] does not exist) or "append"
row_step(cell_data) ==
    IF Len(cell_data) = 0 THEN "continue"
    ELSE IF Len(cell_data) < 3 THEN "IndexError"
    ELSE IF name_test_skips(bank_of(cell_data)) THEN "continue"
    ELSE "append"

\* the cap test at the top of the loop body
cap_reached(count) == count >= RowCap

\* The loop over rows from row i on; picked lists the indices of the rows
\* that produced a record (kept beside df to state the properties).
RECURSIVE extract_rows(_, _, _, _, _)
extract_rows(rows, i, df, count, picked) ==
    IF i > Len(rows) \/ cap_reached(count)
    THEN [ok |-> TRUE, df |-> df, picked |-> picked]
    ELSE LET step == row_step(rows[i])
         IN  IF step = "IndexError" THEN ExtractFailed
             ELSE IF step = "continue"
             THEN extract_rows(rows, i + 1, df, count, picked)
             ELSE extract_rows(rows, i + 1,
                      Append(df, [Name |-> bank_of(rows[i]),
                                  TA_USD_Billion |-> assets_of(rows[i])]),
                      count + 1, Append(picked, i))

\* extract(url, attributes) on the markup the fetch returned;
\* soup.find_all('tbody')[0] raises IndexError on a page without a table
extract(markup) ==
    IF Len(markup) = 0 THEN ExtractFailed
    ELSE extract_rows(markup[1], 1, <<>>, 0, <<>>)

----------------------------------------------------------------------------
(* transform: the rate file is a sequence of lines of two text fields; *)
(* pandas takes the first line as the header.                           *)

\* a call that raised: `inplace` is the caller's frame as the call left it
TransformFailed(inplace) == [ok |-> FALSE, df |-> <<>>, inplace |-> inplace]

\* pd.read_csv(rates): the data rows, or an error for a missing or empty file
read_csv(file) ==
    IF ~file.exists \/ Len(file.lines) = 0 THEN [ok |-> FALSE, rows |-> <<>>]
    ELSE [ok |-> TRUE, rows |-> Tail(file.lines)]

\* mutant: a row index past the end is clamped to the last row
iloc_float_clamped(df_rates, r) ==
    IF Len(df_rates) = 0 THEN [ok |-> FALSE, val |-> 0]
    ELSE PyFloat(df_rates[IF r + 1 > Len(df_rates) THEN Len(df_rates)
                         ELSE r + 1].c1)

\* float(df_rates.iloc[r, 1]) for a 0-based row r
iloc_float(df_rates, r) ==
    IF r + 1 > Len(df_rates) THEN [ok |-> FALSE, val |-> 0]
    ELSE PyFloat(df_rates[r + 1].c1)

rate_eur(df_rates) == iloc_float(df_rates, 0)
\* mutant: the GBP rate read from row 0
rate_gbp_row0(df_rates) == iloc_float(df_rates, 0)
rate_gbp(df_rates) == iloc_float(df_rates, 1)
rate_inr(df_rates) == iloc_float(df_rates, 2)

\* df.replace(',', '', regex=True, inplace=True): every text cell of the
\* frame, the Name column included
replace_commas(rec) ==
    [Name |-> StrRemove(rec.Name, ","),
     TA_USD_Billion |-> StrRemove(rec.TA_USD_Billion, ",")]

transform(df, rates) ==
    LET csv == read_csv(rates)
        eur == rate_eur(csv.rows)
        gbp == rate_gbp(csv.rows)
        inr == rate_inr(csv.rows)
        clean == [i \in 1..Len(df) |-> replace_commas(df[i])]
        usd == [i \in 1..Len(df) |-> PyFloat(clean[i].TA_USD_Billion)]
    IN  IF ~csv.ok \/ ~eur.ok \/ ~gbp.ok \/ ~inr.ok THEN TransformFailed(df)
        ELSE IF \E i \in 1..Len(df) : ~usd[i].ok THEN TransformFailed(clean)
        ELSE [ok |-> TRUE, inplace |-> clean,
              df |-> [i \in 1..Len(df) |->
                        [Name |-> clean[i].Name,
                         TA_USD_Billion |-> usd[i].val,
                         TA_GBP_Billion |-> Round2(usd[i].val * gbp.val),
                         TA_EUR_Billion |-> Round2(usd[i].val * eur.val),
                         TA_INR_Billion |-> Round2(usd[i].val * inr.val)]]]

----------------------------------------------------------------------------
(* The loaders, the query runner and the log *)

FINAL_ATTRIBUTES ==
    <<"Name", "TA_USD_Billion", "TA_GBP_Billion", "TA_EUR_Billion",
      "TA_INR_Billion">>

NoFile == [exists |-> FALSE, header |-> <<>>, rows |-> <<>>]
NoTable == [exists |-> FALSE, rows |-> <<>>]

\* df.to_csv(filename, index=False): the file is rewritten from the frame
load_to_csv(df) == [exists |-> TRUE, header |-> FINAL_ATTRIBUTES, rows |-> df]

\* mutant: if_exists='append'
load_to_db_append(df, old) == [exists |-> TRUE, rows |-> old.rows \o df]

\* df.to_sql(table, connection, if_exists='replace', index=False)
load_to_db(df, old) == [exists |-> TRUE, rows |-> df]

RECURSIVE SumGBP(_)
SumGBP(rows) ==
    IF rows = <<>> THEN 0 ELSE rows[1].TA_GBP_Billion + SumGBP(Tail(rows))

\* The three literal queries; AVG is kept as the exact pair (sum, count),
\* and is NULL over no rows
query_all(table) == table.rows
query_avg(table) ==
    IF Len(table.rows) = 0 THEN [null |-> TRUE, sum |-> 0, n |-> 0]
    ELSE [null |-> FALSE, sum |-> SumGBP(table.rows), n |-> Len(table.rows)]
query_names(table) ==
    LET n == IF Len(table.rows) < QueryLimit THEN Len(table.rows) ELSE QueryLimit
    IN  [i \in 1..n |-> table.rows[i].Name]

\* mutant: the file opened in mode 'w'
log_progress_truncating(file, message) == <<message>>

\* log_progress(message): the file is opened in mode 'a' and one line is
\* written (a line is identified by its message; the timestamp is left out)
log_progress(file, message) == Append(file, message)

Milestones ==
    <<"Preliminaries complete. Initiating ETL process",
      "Data extraction complete. Initiating transformation process",
      "Data transformation complete. Initiating loading process",
      "Data saved to CSV file",
      "SQL connection initiated",
      "Data loaded to database as a table. Executing queries",
      "Process complete",
      "Server connection closed">>

----------------------------------------------------------------------------
(* Inputs: the markup and the rate files an execution may find *)

SeqsUpTo(S, n) == UNION {[1..k -> S] : k \in 0..n}

Cell(text, link) == [text |-> text, link |-> link]
RankCell == Cell(<<"1">>, FALSE)
Row3(name, link, assets) == <<RankCell, Cell(name, link), Cell(assets, FALSE)>>

DigitChar(d) == CHOOSE c \in Digits : DigitVal(c) = d
Dec(k) == IF k < 10 THEN <<DigitChar(k)>>
          ELSE <<DigitChar(k \div 10), DigitChar(k % 10)>>

\* the k-th well-formed row: a linked name and a numeric amount, both telling k
Filler(k) == Row3(<<"B">> \o Dec(k), TRUE, Dec(k))

HeaderRow == <<>>                                      \* only th cells
OneCellRow == <<RankCell>>
TwoCellRow == <<RankCell, Cell(<<"E">>, TRUE)>>
LinkedARow == Row3(<<"a", "b">>, TRUE, <<"4">>)        \* linked, name starts with a
UnlinkedRow == Row3(<<"C", "a">>, FALSE, <<"5">>)      \* no link in the name cell
PaddedRow == Row3(<<"\n", "D", " ">>, TRUE, <<"7", "\n">>)

RowKinds ==
    {HeaderRow, OneCellRow, TwoCellRow, LinkedARow, UnlinkedRow, PaddedRow}

Trails == {<<>>, <<OneCellRow>>, <<TwoCellRow>>, <<UnlinkedRow>>, <<PaddedRow>>}

ExtractTables ==
    {lead \o [k \in 1..n |-> Filler(k)] \o trail :
        lead \in SeqsUpTo(RowKinds, MaxLead), n \in 0..MaxFill, trail \in Trails}

DecoyTable == <<Row3(<<"Z">>, TRUE, <<"9">>)>>

ExtractPages ==
    {<<>>} \cup {<<t>> : t \in ExtractTables}
           \cup {<<t, DecoyTable>> : t \in {u \in ExtractTables : Len(u) <= 1}}

Line(c0, c1) == [c0 |-> c0, c1 |-> c1]
RateHeader == Line("Currency", <<"R", "a", "t", "e">>)
File(lines) == [exists |-> TRUE, lines |-> lines]
MissingFile == [exists |-> FALSE, lines |-> <<>>]

R093 == <<"0", ".", "9", "3">>
R08 == <<"0", ".", "8">>
R821 == <<"8", "2", ".", "1">>

\* exchange_rate.csv as shipped: a header, then EUR, GBP, INR
GoodRates == File(<<RateHeader, Line("EUR", R093), Line("GBP", R08),
                    Line("INR", R821)>>)
\* the same rates in another row order: GBP, INR, EUR
PermutedRates == File(<<RateHeader, Line("GBP", R08), Line("INR", R821),
                        Line("EUR", R093)>>)
\* three lines without a header line: pandas takes the first as the header
HeaderlessRates == File(<<Line("EUR", R093), Line("GBP", R08),
                          Line("INR", R821)>>)
TwoRowRates == File(<<RateHeader, Line("EUR", R093), Line("GBP", R08)>>)
FourRowRates == File(<<RateHeader, Line("EUR", R093), Line("GBP", R08),
                       Line("INR", R821), Line("JPY", <<"n", "a">>)>>)
BadRates == File(<<RateHeader, Line("EUR", R093), Line("GBP", <<"n", "a">>),
                   Line("INR", R821)>>)
EmptyRates == File(<<>>)

TransformRateFiles ==
    {GoodRates, PermutedRates, HeaderlessRates, TwoRowRates, FourRowRates,
     BadRates, EmptyRates, MissingFile}

BankA == <<"B", "a", "n", "k", " ", "A">>
Thousand == <<"1", ",", "0", "0", "0", ".", "0", "0">>

TransformNames == {BankA, <<"B", ",", "C">>}
TransformAssets ==
    {Thousand, <<"0", ".", "5">>, <<" ", "3", "5">>, <<"N", "A">>, <<",">>}

TransformPages ==
    {<<t>> : t \in SeqsUpTo({Row3(n, TRUE, a) :
                                n \in TransformNames, a \in TransformAssets},
                            MaxRecs)}

\* the pages and rate files of the multi-run specification
GoodPage == <<<<HeaderRow, Row3(BankA, TRUE, Thousand),
                Row3(<<"B", ",", "C">>, TRUE, <<"0", ".", "5">>)>>>>
OtherPage == <<<<Row3(<<"D">>, TRUE, <<"7">>)>>>>
ShortRowPage == <<<<Row3(<<"D">>, TRUE, <<"7">>), OneCellRow>>>>
TextAssetPage == <<<<Row3(<<"D">>, TRUE, <<"N", "A">>)>>>>

Pages == {GoodPage, OtherPage, ShortRowPage, TextAssetPage}
RateFiles == {GoodRates, TwoRowRates}

----------------------------------------------------------------------------
(* The script: one action per module-level stage, lines 104-127 *)

Unset == [set |-> FALSE, df |-> <<>>]
Bound(df) == [set |-> TRUE, df |-> df]

EmptyFile == [exists |-> TRUE, header |-> <<>>, rows |-> <<>>]
EmptyTable == [exists |-> TRUE, rows |-> <<>>]

StageOrder ==
    <<"extract", "transform", "load_to_csv", "connect", "load_to_db",
      "query1", "query2", "query3", "close">>

\* mutant: the average is queried after the names
After_queries_swapped(stage) ==
    CASE stage = "start" -> "extract"
      [] stage = "extract" -> "transform"
      [] stage = "transform" -> "load_to_csv"
      [] stage = "load_to_csv" -> "connect"
      [] stage = "connect" -> "load_to_db"
      [] stage = "load_to_db" -> "query1"
      [] stage = "query1" -> "query3"
      [] stage = "query3" -> "query2"
      [] stage = "query2" -> "close"
      [] stage = "close" -> "end"

\* the statement that follows a stage in the script
After(stage) ==
    CASE stage = "start" -> "extract"
      [] stage = "extract" -> "transform"
      [] stage = "transform" -> "load_to_csv"
      [] stage = "load_to_csv" -> "connect"
      [] stage = "connect" -> "load_to_db"
      [] stage = "load_to_db" -> "query1"
      [] stage = "query1" -> "query2"
      [] stage = "query2" -> "query3"
      [] stage = "query3" -> "close"
      [] stage = "close" -> "end"

Begin(stage) ==
    /\ pc = stage
    /\ status = "running"
    /\ trace' = Append(trace, stage)

\* an uncaught exception: the interpreter exits at this statement
Raise == status' = "failed" /\ pc' = pc

Advance(stage) == pc' = After(stage) /\ status' = status

InitWith(pages, files) ==
    /\ pc = "start"
    /\ status = "running"
    /\ run = 1
    /\ page \in pages
    /\ rateFile \in files
    /\ extracted = Unset
    /\ transformed = Unset
    /\ con = "none"
    /\ csvFile = NoFile
    /\ dbTable = NoTable
    /\ log = <<>>
    /\ console = <<>>
    /\ trace = <<>>
    /\ logAtStart = <<>>
    /\ tableAtStart = NoTable

Init == InitWith(Pages, RateFiles)
InitExtract == InitWith(ExtractPages, {GoodRates})
InitTransform == InitWith(TransformPages, TransformRateFiles)

\* line 104
Preliminaries ==
    /\ pc = "start"
    /\ status = "running"
    /\ log' = log_progress(log, Milestones[1])
    /\ Advance("start")
    /\ UNCHANGED <<run, page, rateFile, extracted, transformed, con, csvFile,
                   dbTable, console, trace, logAtStart, tableAtStart>>

\* lines 106-107
Extract ==
    /\ Begin("extract")
    /\ LET r == extract(page)
       IN  IF r.ok
           THEN /\ extracted' = Bound(r.df)
                /\ log' = log_progress(log, Milestones[2])
                /\ Advance("extract")
           ELSE Raise /\ UNCHANGED <<extracted, log>>
    /\ UNCHANGED <<run, page, rateFile, transformed, con, csvFile, dbTable,
                   console, logAtStart, tableAtStart>>

\* line 40: requests.get raises (network failure, timeout)
FetchFault ==
    /\ Begin("extract")
    /\ Raise
    /\ UNCHANGED <<run, page, rateFile, extracted, transformed, con, csvFile,
                   dbTable, log, console, logAtStart, tableAtStart>>

\* lines 109-110; df.replace(..., inplace=True) changes `extracted` itself
Transform ==
    /\ Begin("transform")
    /\ LET r == transform(extracted.df, rateFile)
       IN  /\ extracted' = Bound(r.inplace)
           /\ IF r.ok
              THEN /\ transformed' = Bound(r.df)
                   /\ log' = log_progress(log, Milestones[3])
                   /\ Advance("transform")
              ELSE Raise /\ UNCHANGED <<transformed, log>>
    /\ UNCHANGED <<run, page, rateFile, con, csvFile, dbTable, console,
                   logAtStart, tableAtStart>>

\* lines 112-113
LoadCsv ==
    /\ Begin("load_to_csv")
    /\ csvFile' = load_to_csv(transformed.df)
    /\ log' = log_progress(log, Milestones[4])
    /\ Advance("load_to_csv")
    /\ UNCHANGED <<run, page, rateFile, extracted, transformed, con, dbTable,
                   console, logAtStart, tableAtStart>>

\* line 89: the write raises; the file could not be opened (left as it was)
\* or was opened for writing and is left truncated
LoadCsvFault ==
    /\ Begin("load_to_csv")
    /\ Raise
    /\ csvFile' \in {csvFile, EmptyFile}
    /\ UNCHANGED <<run, page, rateFile, extracted, transformed, con, dbTable,
                   log, console, logAtStart, tableAtStart>>

\* lines 115-116
Connect ==
    /\ Begin("connect")
    /\ con' = "open"
    /\ log' = log_progress(log, Milestones[5])
    /\ Advance("connect")
    /\ UNCHANGED <<run, page, rateFile, extracted, transformed, csvFile,
                   dbTable, console, logAtStart, tableAtStart>>

\* mutant: a failed open removes the flat file the run has just written
ConnectFault_cleaning_up ==
    /\ Begin("connect")
    /\ Raise
    /\ csvFile' = NoFile
    /\ UNCHANGED <<run, page, rateFile, extracted, transformed, con, dbTable,
                   log, console, logAtStart, tableAtStart>>

\* line 115: sqlite3.connect raises
ConnectFault ==
    /\ Begin("connect")
    /\ Raise
    /\ UNCHANGED <<run, page, rateFile, extracted, transformed, con, csvFile,
                   dbTable, log, console, logAtStart, tableAtStart>>

\* lines 117-118; a closed connection raises ProgrammingError
LoadDb ==
    /\ Begin("load_to_db")
    /\ IF con = "open"
       THEN /\ dbTable' = load_to_db(transformed.df, dbTable)
            /\ log' = log_progress(log, Milestones[6])
            /\ Advance("load_to_db")
       ELSE Raise /\ UNCHANGED <<dbTable, log>>
    /\ UNCHANGED <<run, page, rateFile, extracted, transformed, con, csvFile,
                   console, logAtStart, tableAtStart>>

\* line 94: to_sql raises part-way; the old table may be untouched, dropped,
\* or recreated without rows
LoadDbFault ==
    /\ Begin("load_to_db")
    /\ Raise
    /\ dbTable' \in {dbTable, NoTable, EmptyTable}
    /\ UNCHANGED <<run, page, rateFile, extracted, transformed, con, csvFile,
                   log, console, logAtStart, tableAtStart>>

\* the literal query of each run_query call
QueryText(stage) ==
    CASE stage = "query1" -> "SELECT * FROM Largest_banks"
      [] stage = "query2" -> "SELECT AVG(TA_GBP_Billion) FROM Largest_banks"
      [] stage = "query3" -> "SELECT Name from Largest_banks LIMIT 5"

\* run_query(query, con): prints the query, reads, prints the output
run_query(stage, output) ==
    /\ Begin(stage)
    /\ IF con = "open" /\ dbTable.exists
       THEN /\ console' = console \o <<QueryText(stage), output>>
            /\ Advance(stage)
       ELSE Raise /\ console' = Append(console, QueryText(stage))
    /\ UNCHANGED <<run, page, rateFile, extracted, transformed, con, csvFile,
                   dbTable, logAtStart, tableAtStart>>

\* line 120
Query1 ==
    /\ run_query("query1", query_all(dbTable))
    /\ UNCHANGED log

\* line 121
Query2 ==
    /\ run_query("query2", query_avg(dbTable))
    /\ UNCHANGED log

\* lines 122-124
Query3 ==
    /\ run_query("query3", query_names(dbTable))
    /\ log' = IF con = "open" /\ dbTable.exists
              THEN log_progress(log, Milestones[7]) ELSE log

\* line 100: pd.read_sql raises after the query was printed
QueryFault ==
    /\ pc \in {"query1", "query2", "query3"}
    /\ Begin(pc)
    /\ Raise
    /\ console' = Append(console, QueryText(pc))
    /\ UNCHANGED <<run, page, rateFile, extracted, transformed, con, csvFile,
                   dbTable, log, logAtStart, tableAtStart>>

\* mutant: the run ends without con.close()
Close_without_close ==
    /\ Begin("close")
    /\ log' = log_progress(log, Milestones[8])
    /\ pc' = After("close")
    /\ status' = "done"
    /\ UNCHANGED <<run, page, rateFile, extracted, transformed, con, csvFile,
                   dbTable, console, logAtStart, tableAtStart>>

\* lines 126-127, then the script ends
Close ==
    /\ Begin("close")
    /\ con' = "closed"
    /\ log' = log_progress(log, Milestones[8])
    /\ pc' = After("close")
    /\ status' = "done"
    /\ UNCHANGED <<run, page, rateFile, extracted, transformed, csvFile,
                   dbTable, console, logAtStart, tableAtStart>>

\* the operator starts the script again: the files on disk persist
NewRun ==
    /\ status \in {"done", "failed"}
    /\ run < MaxRuns
    /\ run' = run + 1
    /\ pc' = "start"
    /\ status' = "running"
    /\ page' \in Pages
    /\ rateFile' \in RateFiles
    /\ extracted' = Unset
    /\ transformed' = Unset
    /\ con' = "none"
    /\ console' = <<>>
    /\ trace' = <<>>
    /\ logAtStart' = log
    /\ tableAtStart' = dbTable
    /\ UNCHANGED <<csvFile, dbTable, log>>

RunNext ==
    \/ Preliminaries
    \/ Extract
    \/ FetchFault
    \/ Transform
    \/ LoadCsv
    \/ LoadCsvFault
    \/ Connect
    \/ ConnectFault
    \/ LoadDb
    \/ LoadDbFault
    \/ Query1
    \/ Query2
    \/ Query3
    \/ QueryFault
    \/ Close

Next == RunNext \/ NewRun

Spec == Init /\ [][Next]_vars
SpecExtract == InitExtract /\ [][RunNext]_vars
SpecTransform == InitTransform /\ [][RunNext]_vars

----------------------------------------------------------------------------
(* Vocabulary of the properties *)

Started(stage) == \E i \in 1..Len(trace) : trace[i] = stage
Completed(stage) == Started(stage) /\ ~(status = "failed" /\ pc = stage)

IsPrefix(s, t) == Len(s) <= Len(t) /\ SubSeq(t, 1, Len(s)) = s

RECURSIVE Ascending(_)
Ascending(S) ==
    IF S = {} THEN <<>> ELSE <<Min(S)>> \o Ascending(S \ {Min(S)})

FirstN(s, n) == SubSeq(s, 1, IF Len(s) < n THEN Len(s) ELSE n)

\* the first table of the page, and what extract makes of the page
FirstTable == IF Len(page) = 0 THEN <<>> ELSE page[1]
Raw == extract(page)

\* the record a row stands for
RecordOf(row) == [Name |-> bank_of(row), TA_USD_Billion |-> assets_of(row)]

\* a qualifying row as the specification words it: at least one data cell,
\* and a name cell that contains a link
Qualifies(row) == Len(row) >= 1 /\ Len(row) >= 2 /\ row[2].link

----------------------------------------------------------------------------
(* C1: extract returns the first min(10, q) qualifying rows of the table, *)
(* in table order, q being the number of qualifying rows (a row with a    *)
(* data cell whose name cell holds a link).  Stated for the calls that    *)
(* return; the code refutes it.                                            *)
C1_FirstTenQualifying ==
    (pc = "transform" /\ status = "running") =>
        LET idx == FirstN(Ascending({i \in 1..Len(FirstTable) :
                                        Qualifies(FirstTable[i])}), RowCap)
        IN  /\ Raw.picked = idx
            /\ extracted.df = [k \in 1..Len(idx) |-> RecordOf(FirstTable[idx[k]])]

(* C2: a row is selected only if its name cell contains a link, and a row *)
(* with data cells and a linked name cell that is met before the cap is   *)
(* selected whatever its name reads.  The code refutes it.                *)
C2_LinkFilter ==
    (pc = "transform" /\ status = "running") =>
        LET picked == {Raw.picked[k] : k \in 1..Len(Raw.picked)}
        IN  /\ \A i \in picked : FirstTable[i][2].link
            /\ \A i \in 1..Len(FirstTable) :
                  ( /\ Len(FirstTable[i]) >= 3
                    /\ FirstTable[i][2].link
                    /\ Cardinality({j \in picked : j < i}) < RowCap )
                  => i \in picked

\* the rows with one or two data cells, and whether the loop reaches one
\* before it has collected RowCap records
ShortRows == {i \in 1..Len(FirstTable) : Len(FirstTable[i]) \in {1, 2}}
CollectedBefore(i) == Len(extract(<<SubSeq(FirstTable, 1, i - 1)>>).df)
ShortRowReached ==
    ShortRows # {} /\ CollectedBefore(Min(ShortRows)) < RowCap

(* C10: extract never makes a record from a row with fewer than three     *)
(* data cells.  A row without data cells is skipped, does not fail the    *)
(* call and does not count toward the cap; a row with one or two data     *)
(* cells reached before 10 records are collected makes the call raise:    *)
(* nothing is returned and the run ends before transform.                 *)
C10_ShortRows ==
    /\ \A k \in 1..Len(Raw.picked) : Len(FirstTable[Raw.picked[k]]) >= 3
    /\ Len(page) > 0 =>
          /\ Raw.ok <=> ~ShortRowReached
          /\ Raw.df = extract(<<SelectSeq(FirstTable,
                                          LAMBDA row : Len(row) > 0)>>).df
    /\ (Started("extract") /\ ShortRowReached) =>
          /\ status = "failed" /\ pc = "extract"
          /\ extracted = Unset /\ transformed = Unset
          /\ trace = <<"extract">>
          /\ log = logAtStart \o <<Milestones[1]>>
    /\ (pc = "transform" /\ status = "running") =>
          /\ extracted = Bound(Raw.df)
          /\ Len(Raw.df) = Len(Raw.picked)

\* a short row met after earlier rows gave records: the records are lost
C10_Witness ==
    /\ status = "failed" /\ pc = "extract"
    /\ ShortRowReached
    /\ CollectedBefore(Min(ShortRows)) > 0
    /\ \E i \in 1..Len(FirstTable) : Len(FirstTable[i]) = 0
    /\ extracted = Unset

----------------------------------------------------------------------------
(* Properties of transform *)

\* the data rows of the rate file as pandas reads them, and the rate of a
\* 0-based row read by position
RateRows == IF ~rateFile.exists \/ Len(rateFile.lines) = 0 THEN <<>>
            ELSE Tail(rateFile.lines)
RowRate(r) == PyFloat(RateRows[r + 1].c1).val

\* the amount of a raw record: its text without commas, read as a number
Amount(rec) == PyFloat(StrRemove(rec.TA_USD_Billion, ","))

\* the currency columns of record i of the output against raw record i
ConvertedAt(i) ==
    LET usd == Amount(Raw.df[i]).val
        out == transformed.df[i]
    IN  /\ out.TA_USD_Billion = usd
        /\ out.TA_GBP_Billion = Round2(usd * RowRate(1))
        /\ out.TA_EUR_Billion = Round2(usd * RowRate(0))
        /\ out.TA_INR_Billion = Round2(usd * RowRate(2))

ScenarioPage == <<<<Row3(BankA, TRUE, Thousand)>>>>
ScenarioHolds ==
    (page = ScenarioPage /\ rateFile = GoodRates) =>
        transformed.df = <<[Name |-> BankA, TA_USD_Billion |-> 100000,
                            TA_GBP_Billion |-> 80000, TA_EUR_Billion |-> 93000,
                            TA_INR_Billion |-> 8210000]>>

(* C3 as claimed: transform keeps the number and order of the records,    *)
(* every output record has the SAME name as its raw record, the amount is *)
(* the text without commas read as a number, and GBP, EUR, INR are the    *)
(* amount times the rate of row 1, row 0, row 2, rounded to 2 decimals;   *)
(* (0.93, 0.8, 82.1) and (Bank A, "1,000.00") give                        *)
(* (Bank A, 1000.0, 800.0, 930.0, 82100.0).                               *)
C3_Original ==
    Completed("transform") =>
        /\ Len(transformed.df) = Len(Raw.df)
        /\ \A i \in 1..Len(Raw.df) :
              transformed.df[i].Name = Raw.df[i].Name /\ ConvertedAt(i)
        /\ ScenarioHolds

(* C3 as amended: the same, except that the name of an output record is   *)
(* the raw name with its commas removed.                                   *)
C3_Amended ==
    Completed("transform") =>
        /\ Len(transformed.df) = Len(Raw.df)
        /\ \A i \in 1..Len(Raw.df) :
              /\ transformed.df[i].Name = StrRemove(Raw.df[i].Name, ",")
              /\ ConvertedAt(i)
        /\ ScenarioHolds

\* two records, one of them the scenario's and one with a comma in its name,
\* converted with the rates of the shipped file
C3_Witness ==
    /\ Completed("transform")
    /\ rateFile = GoodRates
    /\ Raw.df = <<[Name |-> BankA, TA_USD_Billion |-> Thousand],
                  [Name |-> <<"B", ",", "C">>, TA_USD_Billion |-> <<" ", "3", "5">>]>>
    /\ transformed.df =
          <<[Name |-> BankA, TA_USD_Billion |-> 100000,
             TA_GBP_Billion |-> 80000, TA_EUR_Billion |-> 93000,
             TA_INR_Billion |-> 8210000],
            [Name |-> <<"B", "C">>, TA_USD_Billion |-> 3500,
             TA_GBP_Billion |-> 2800, TA_EUR_Billion |-> 3255,
             TA_INR_Billion |-> 287350]>>

FewRateRows == Len(RateRows) < 3
TextAmount == \E i \in 1..Len(Raw.df) : ~Amount(Raw.df[i]).ok

(* C5: transform raises whenever the rate file has fewer than 3 rows and  *)
(* whenever the amount of a record is not a number once its commas are    *)
(* removed: nothing is returned and the run ends there, before the flat   *)
(* file or the table is written.                                          *)
C5_TransformFails ==
    (Started("transform") /\ (FewRateRows \/ TextAmount)) =>
        /\ status = "failed" /\ pc = "transform"
        /\ transformed = Unset
        /\ trace = <<"extract", "transform">>
        /\ csvFile = NoFile
        /\ dbTable = NoTable
        /\ con = "none"

\* a rate file of two rows met with records whose amounts are all numbers
C5_Witness ==
    /\ Started("transform")
    /\ status = "failed"
    /\ rateFile = TwoRowRates
    /\ Len(Raw.df) = 2
    /\ ~TextAmount
    /\ transformed = Unset

----------------------------------------------------------------------------
(* Properties of the run *)

\* the lines of the log this run has appended
RunLines == SubSeq(log, Len(logAtStart) + 1, Len(log))

\* the milestone lines written before a stage starts
LinesBefore(stage) ==
    CASE stage = "extract" -> 1
      [] stage = "transform" -> 2
      [] stage = "load_to_csv" -> 3
      [] stage = "connect" -> 4
      [] stage = "load_to_db" -> 5
      [] stage \in {"query1", "query2", "query3"} -> 6
      [] stage = "close" -> 7

\* the stage whose completion milestone k reports (line 1 reports none)
ReportedBy(k) ==
    CASE k = 2 -> "extract"
      [] k = 3 -> "transform"
      [] k = 4 -> "load_to_csv"
      [] k = 5 -> "connect"
      [] k = 6 -> "load_to_db"
      [] k = 7 -> "query3"
      [] k = 8 -> "close"

ThisRunsTable == [exists |-> TRUE, rows |-> transformed.df]
ThisRunsFile ==
    [exists |-> TRUE, header |-> FINAL_ATTRIBUTES, rows |-> transformed.df]

AfterCsv == {"connect", "load_to_db", "query1", "query2", "query3"}
DbStages == {"load_to_db", "query1", "query2", "query3"}
Queries == {"query1", "query2", "query3"}

(* C4: load_to_db replaces: once it has run with records R the table      *)
(* holds exactly R, whatever it held before (absent, empty, an earlier    *)
(* run's rows), so a second run on the same input leaves the same rows    *)
(* and row count as the first, and rows are never appended.               *)
C4_Replace ==
    Completed("load_to_db") =>
        /\ dbTable.exists
        /\ dbTable.rows = transformed.df
        /\ Len(dbTable.rows) = Len(transformed.df)

\* a second run loads the records the first run had loaded
C4_Witness ==
    /\ run = 2
    /\ Completed("load_to_db")
    /\ tableAtStart.exists
    /\ Len(tableAtStart.rows) = 2
    /\ transformed.df = tableAtStart.rows
    /\ dbTable = tableAtStart

\* what holds of a failed run whatever the failing stage: the failing stage
\* is the last one started, the stages ran in script order, and the log
\* holds exactly the milestones written before the failing stage
FailedRunState ==
    /\ trace # <<>> /\ trace[Len(trace)] = pc
    /\ IsPrefix(trace, StageOrder)
    /\ RunLines = SubSeq(Milestones, 1, LinesBefore(pc))
    /\ pc \in AfterCsv => csvFile = ThisRunsFile

\* a step out of a failed run changes nothing, unless it is a fresh run
FailedRunStep ==
    status = "failed" =>
        \/ UNCHANGED vars
        \/ run' = run + 1 /\ UNCHANGED <<csvFile, dbTable, log>>

\* the step that raises removes no output and writes no log line
RaisingStep ==
    (status = "running" /\ status' = "failed") =>
        /\ log' = log
        /\ pc # "load_to_csv" => csvFile' = csvFile
        /\ pc # "load_to_db" => dbTable' = dbTable

(* C6 as claimed: a failure in any stage ends the run at once; no later   *)
(* stage runs, no later milestone is logged, nothing is retried, the log  *)
(* keeps exactly the milestones written before the failing stage, and     *)
(* what was written is left in place: after a fault at or after the       *)
(* database open this run's flat file lies next to the table the previous *)
(* run left (taken here for a fault at the open and for a fault in a      *)
(* query, the two cases where the script alone decides the table).        *)
C6_Original ==
    status = "failed" =>
        /\ FailedRunState
        /\ pc \in {"connect"} \cup Queries => dbTable = tableAtStart

(* C6 as amended: the same, except that the table is the one the previous *)
(* run left after a fault at the database open, and this run's table      *)
(* after a fault in a query (nothing is said of it after a fault in the   *)
(* table load itself).                                                     *)
C6_Amended ==
    /\ [](status = "failed" =>
            /\ FailedRunState
            /\ pc = "connect" => dbTable = tableAtStart
            /\ pc \in Queries => dbTable = ThisRunsTable)
    /\ [][FailedRunStep /\ RaisingStep]_vars

\* a second run fails in a query: its own table has replaced the first run's
C6_Witness ==
    /\ status = "failed"
    /\ pc = "query2"
    /\ run = 2
    /\ tableAtStart.exists
    /\ dbTable # tableAtStart
    /\ csvFile = ThisRunsFile
    /\ Len(RunLines) = 6

\* the connection against the stages of the run
ConnectionState ==
    /\ con # "none" => Completed("load_to_csv") /\ csvFile = ThisRunsFile
    /\ Cardinality({i \in 1..Len(trace) : trace[i] = "connect"}) <= 1
    /\ \A s \in DbStages : Started(s) => Completed("connect")
    /\ con = "closed" <=> Completed("close")

\* a step that starts the load or a query finds the connection open, and no
\* stage starts once it is closed
ConnectionStep ==
    /\ (trace' # trace /\ trace' # <<>> /\ trace'[Len(trace')] \in DbStages)
          => con = "open"
    /\ con = "closed" => (trace' = trace \/ trace' = <<>>)

(* C7 as claimed: the connection is opened at most once and only after    *)
(* the flat file is written, the load and the queries run only while it   *)
(* is open, it is closed at the end of the run and not used afterwards:   *)
(* no run ends with the connection left open.                             *)
C7_Original ==
    /\ ConnectionState
    /\ status \in {"done", "failed"} => con # "open"

(* C7 as amended: the same, except that only a run in which no stage      *)
(* fails closes the connection; a run that fails after the open ends      *)
(* without closing it.                                                     *)
C7_Amended ==
    /\ [](/\ ConnectionState
          /\ status = "done" => con = "closed"
          /\ (status = "failed" /\ Completed("connect")) => con = "open")
    /\ [][ConnectionStep]_vars

\* a run whose last query raises: the first two ran on the open connection,
\* and the run has ended without closing it
C7_Witness ==
    /\ status = "failed"
    /\ pc = "query3"
    /\ con = "open"
    /\ Len(console) = 5
    /\ csvFile = ThisRunsFile

(* C8: each stage runs at most once, in the order extract, transform,     *)
(* flat-file load, relational load, then select-all, average of GBP,      *)
(* first 5 names; a stage starts only when the one before has completed   *)
(* and works on its output; a run without a failure runs every stage      *)
(* exactly once and then terminates.                                       *)
C8_FixedOrder ==
    /\ IsPrefix(trace, StageOrder)
    /\ \A i \in 1..Len(trace) - 1 : Completed(trace[i])
    /\ (Completed("extract") /\ ~Started("transform")) =>
          extracted = Bound(Raw.df)
    /\ Completed("transform") =>
          transformed = Bound(transform(Raw.df, rateFile).df)
    /\ Completed("load_to_csv") => csvFile = ThisRunsFile
    /\ Completed("load_to_db") => dbTable = ThisRunsTable
    /\ IsPrefix(console,
                <<QueryText("query1"), query_all(ThisRunsTable),
                  QueryText("query2"), query_avg(ThisRunsTable),
                  QueryText("query3"), query_names(ThisRunsTable)>>)
    /\ \A k \in 1..3 : Completed(StageOrder[5 + k]) => Len(console) >= 2 * k
    /\ status = "done" =>
          /\ trace = StageOrder
          /\ pc = "end"
          /\ ~ENABLED RunNext

\* a complete second run over two records
C8_Witness ==
    /\ status = "done"
    /\ run = 2
    /\ trace = StageOrder
    /\ Len(transformed.df) = 2
    /\ Len(console) = 6

(* C9: the log only grows, across runs and within them, whether they      *)
(* complete or fail: no line is changed or removed; the lines of one run  *)
(* are a prefix of the eight milestones, each written only after the      *)
(* stage it reports has completed; a complete run writes all eight.       *)
C9_AppendOnly ==
    /\ [](/\ IsPrefix(logAtStart, log)
          /\ IsPrefix(RunLines, Milestones)
          /\ \A k \in 2..Len(RunLines) : Completed(ReportedBy(k))
          /\ status = "done" => RunLines = Milestones)
    /\ [][IsPrefix(log, log') /\ (run' # run => logAtStart' = log)]_vars

\* a complete run after a failed one: eight lines after the earlier ones
C9_Witness ==
    /\ status = "done"
    /\ run = 2
    /\ Len(logAtStart) \in 1..7
    /\ Len(log) = Len(logAtStart) + 8
    /\ RunLines = Milestones

====
